---- MODULE Spec2Model ----
(***************************************************************************)
(* Model of src/server.py: the /ask/start and /ask/resume handlers driving *)
(* the compiled graph retrieve -> context -> human -> generate with a      *)
(* checkpointer.  GRAPH.invoke is modelled by what the compiled graph does *)
(* with a checkpointer attached: a checkpoint is appended for the thread   *)
(* after the input is applied and after every node, an interrupt() inside  *)
(* a node parks the run at that node, and a later invoke on the same       *)
(* thread_id continues from the thread's latest checkpoint.                *)
(*                                                                         *)
(* Spec serves requests one at a time; ConcSpec serves them with two       *)
(* workers whose loads, node steps and checkpoint writes interleave.       *)
(*                                                                         *)
(* Text is a sequence of tokens; <<>> is the empty text.  A dict is a      *)
(* function whose DOMAIN is the set of keys present.                       *)
(***************************************************************************)
EXTENDS Naturals, Sequences, FiniteSets, TLC

VARIABLES store, pc, req, loc, resume, resp, work, calls, limit, fails, gens, okDecisions, coll

vars == <<store, pc, req, loc, resume, resp, work, calls, limit, fails, gens, okDecisions, coll>>

\* ---------------------------------------------------------------- bounds
\* requests issued in a run: one at a time (MaxCalls), overlapping (MaxConcCalls)
MaxCalls == 4
MaxConcCalls == 3
MaxFailures == 1
\* requests issued in a run over a collection holding a long document, and how far the
\* context built from that document falls below and beyond the preview length
MaxLongCalls == 2
LongSlack == 1

Procs == {"p1", "p2"}
Threads == {"t1", "t2"}

\* ------------------------------------------------------------ input sets
\* {}: the dict with no key
EmptyDict == [k \in {} |-> k]

EmptyText == <<>>
Questions == {EmptyText, <<"q">>}
TopKs == {1, 2}
StartInputs == {<<EmptyText, 1>>, <<(<<"q">>), 1>>, <<(<<"q">>), 2>>}
TextX == <<"X">>
Decisions ==
    { EmptyDict,
      [approved |-> TRUE],
      [approved |-> FALSE],
      [approved |-> TRUE, edited_context |-> TextX],
      [approved |-> FALSE, edited_context |-> EmptyText],
      [approved |-> FALSE, edited_context |-> TextX] }

\* resume values that are not dicts: a text and the empty text
NonMappings == {[scalar |-> TextX], [scalar |-> EmptyText]}

\* The documents of the collection, as similarity_search returns them.
Doc1 == [page_content |-> <<" ", "a", " ">>, metadata |-> [source |-> "doc1", chunk |-> 0]]
Doc2 == [page_content |-> <<"b", "\n">>, metadata |-> [source |-> "doc2", chunk |-> 1]]

\* ------------------------------------------------------------ pure parts
Min(a, b) == IF a <= b THEN a ELSE b

Whitespace == {" ", "\n"}

RECURSIVE LStrip(_)
LStrip(t) == IF t # <<>> /\ Head(t) \in Whitespace THEN LStrip(Tail(t)) ELSE t

RECURSIVE RStrip(_)
RStrip(t) ==
    IF t # <<>> /\ t[Len(t)] \in Whitespace THEN RStrip(SubSeq(t, 1, Len(t) - 1)) ELSE t

\* str.strip()
Strip(t) == RStrip(LStrip(t))

\* str(n) of a chunk index
ToStr(n) == IF n = 0 THEN "0" ELSE IF n = 1 THEN "1" ELSE IF n = 2 THEN "2" ELSE "n"

\* dict.get(key, default)
Get(d, key, default) == IF key \in DOMAIN d THEN d[key] ELSE default

\* f"[{src}#{ch}]\n{d['page_content'].strip()}"
FormatPart(d) ==
    LET src == Get(d.metadata, "source", "?")
        ch  == IF "chunk" \in DOMAIN d.metadata THEN ToStr(d.metadata.chunk) ELSE "?"
    IN  <<"[", src, "#", ch, "]", "\n">> \o Strip(d.page_content)

\* "\n\n".join(parts)
RECURSIVE Join(_)
Join(parts) ==
    IF parts = <<>> THEN <<>>
    ELSE IF Len(parts) = 1 THEN parts[1]
    ELSE parts[1] \o <<"\n", "\n">> \o Join(Tail(parts))

\* context_node: the update it returns
context_node(s) ==
    LET r == Get(s, "retrieved", <<>>)
    IN  [context |-> Join([i \in 1..Len(r) |-> FormatPart(r[i])])]

Reverse(t) == [i \in 1..Len(t) |-> t[Len(t) + 1 - i]]

\* db.similarity_search(question, k): the k nearest documents of the collection
Ranking(q) == IF q = EmptyText THEN Reverse(coll) ELSE coll
similarity_search(q, k) == SubSeq(Ranking(q), 1, Min(k, Len(Ranking(q))))

\* retrieve_node: the update it returns (s has a question)
retrieve_node(s) == [retrieved |-> similarity_search(s.question, Get(s, "topk", 4))]

PreviewLen == 4000

\* faulty variant of Preview: the whole context is shown
PreviewWhole(t) == t

\* s.get("context","")[:4000]
Preview(t) == SubSeq(t, 1, Min(Len(t), PreviewLen))

NoneValue == "None"

\* human_node: the payload handed to interrupt()
HumanPayload(s) ==
    LET r == Get(s, "retrieved", <<>>)
    IN  [action |-> "review_context",
         question |-> Get(s, "question", <<NoneValue>>),
         context_preview |-> Preview(Get(s, "context", EmptyText)),
         retrieved_sources |->
             [i \in 1..Len(r) |->
                 [source |-> Get(r[i].metadata, "source", NoneValue),
                  chunk |-> Get(r[i].metadata, "chunk", NoneValue)]],
         hint |-> "approved / edited_context"]

\* a value is truthy when it is not the empty text
Truthy(v) == v # EmptyText

\* faulty variant of HumanUpdate: the decision is dropped
HumanUpdateNone(decision) == EmptyDict

\* faulty variant of HumanUpdate: the context is overwritten whether or not the decision carries a value
HumanUpdateAlways(decision) == [context |-> Get(decision, "edited_context", EmptyText)]

\* isinstance(decision, dict); a value that is not a dict is written [scalar |-> v]
IsDict(v) == "scalar" \notin DOMAIN v

\* faulty variant of HumanUpdate: the context is overwritten whenever the decision has
\* the key edited_context
HumanUpdatePresent(decision) ==
    IF IsDict(decision) /\ "edited_context" \in DOMAIN decision
    THEN [context |-> decision.edited_context]
    ELSE EmptyDict

\* faulty variant of HumanUpdate: a decision that is not approved and carries no edit
\* blanks the context
HumanUpdateRejectClears(decision) ==
    IF "edited_context" \in DOMAIN decision /\ Truthy(decision.edited_context)
    THEN [context |-> decision.edited_context]
    ELSE IF "approved" \in DOMAIN decision /\ ~decision.approved
         THEN [context |-> EmptyText]
         ELSE EmptyDict

\* faulty variant of HumanUpdate: the decision itself is returned as the update
HumanUpdateDecision(decision) == decision

\* human_node after interrupt() returned the decision: the update it returns
HumanUpdate(decision) ==
    IF /\ IsDict(decision)
       /\ "edited_context" \in DOMAIN decision
       /\ Truthy(decision.edited_context)
    THEN [context |-> decision.edited_context]
    ELSE EmptyDict

\* RAG_PROMPT.format(question=..., context=...)
Prompt(s) == [question |-> s.question, context |-> Get(s, "context", EmptyText)]

\* llm.invoke(prompt).content: the completion, identified by the prompt it answers
Complete(prompt) == [of |-> prompt]

\* generate_node: the update it returns
generate_node(s) == [answer |-> Complete(Prompt(s))]

\* merging a node's update (or the input) into the state
Merge(upd, s) == upd @@ s

\* ------------------------------------------------------- checkpoint store
EmptyState == EmptyDict

\* faulty variant of Checkpoint: the terminal checkpoint still carries an interrupt
CheckpointKeepsInterrupt(s, next, intr) ==
    [state |-> s, next |-> next,
     interrupt |-> IF next = "END" THEN <<HumanPayload(s)>> ELSE intr]

Checkpoint(s, next, intr) == [state |-> s, next |-> next, interrupt |-> intr]

\* the checkpointer's read: the thread's latest checkpoint
Latest(t) == store[t][Len(store[t])]

HasCheckpoint(t) == store[t] # <<>>

\* faulty variant of Put: the checkpoint is not keyed by the thread_id
PutShared(t, ck) == [u \in Threads |-> Append(store[u], ck)]

\* the checkpointer's write: a new checkpoint superseding the thread's earlier ones
Put(t, ck) == [store EXCEPT ![t] = Append(@, ck)]

\* --------------------------------------------------------------- responses
NoResp == [status |-> "none", thread_id |-> "", interrupt |-> <<>>, answer |-> <<>>, error |-> ""]

\* faulty variant of Respond: the answer left in the state is returned beside the interrupt
RespondBoth(t, out, intr) ==
    [status |-> "ok", thread_id |-> t, interrupt |-> intr,
     answer |-> IF "answer" \in DOMAIN out THEN <<out.answer>> ELSE <<>>, error |-> ""]

\* faulty variant of Respond: an answer found in the state is returned before the
\* interrupt is looked at
RespondAnswerFirst(t, out, intr) ==
    IF "answer" \in DOMAIN out
    THEN [status |-> "ok", thread_id |-> t, interrupt |-> <<>>, answer |-> <<out.answer>>,
          error |-> ""]
    ELSE [status |-> "ok", thread_id |-> t, interrupt |-> intr, answer |-> <<>>, error |-> ""]

\* the handlers' return: the interrupt if the run was interrupted, else out["answer"]
Respond(t, out, intr) ==
    IF intr # <<>>
    THEN [status |-> "ok", thread_id |-> t, interrupt |-> intr, answer |-> <<>>, error |-> ""]
    ELSE [status |-> "ok", thread_id |-> t, interrupt |-> <<>>, answer |-> <<out.answer>>,
          error |-> ""]

Failure(t, e) ==
    [status |-> "error", thread_id |-> t, interrupt |-> <<>>, answer |-> <<>>, error |-> e]

\* what the request a worker serves has done so far: the nodes entered, the checkpoints
\* written, the checkpoint the run continued from, the prompt generation sent, and
\* whether a resume with the same decision had already completed the thread
NoWork == [steps |-> <<>>, saves |-> 0, loaded |-> <<>>, prompt |-> <<>>, dup |-> FALSE]

DummyDecision == [approved |-> TRUE]

Request(op, t, q, k, d, v) ==
    [op |-> op, tid |-> t, question |-> q, topk |-> k, decision |-> d, valid |-> v]

\* ------------------------------------------------------------------- Init
Start0 ==
    /\ store = [t \in Threads |-> <<>>]
    /\ pc = [p \in Procs |-> "idle"]
    /\ req = [p \in Procs |-> Request("none", "t1", EmptyText, 1, DummyDecision, TRUE)]
    /\ loc = [p \in Procs |-> EmptyState]
    /\ resume = [p \in Procs |-> FALSE]
    /\ resp = [p \in Procs |-> NoResp]
    /\ work = [p \in Procs |-> NoWork]
    /\ calls = 0
    /\ fails = 0
    /\ gens = [t \in Threads |-> 0]
    /\ okDecisions = [t \in Threads |-> {}]

Init == Start0 /\ limit = MaxCalls /\ coll = <<Doc1, Doc2>>

ConcInit == Start0 /\ limit = MaxConcCalls /\ coll = <<Doc1, Doc2>>

\* a document whose tagged text is d tokens longer than the preview (shorter, below 0)
LongMeta == [source |-> "long", chunk |-> 2]
TagLen == Len(FormatPart([page_content |-> <<>>, metadata |-> LongMeta]))
LongDoc(d) ==
    [page_content |-> [i \in 1..(PreviewLen + d - LongSlack - TagLen) |-> "x"],
     metadata |-> LongMeta]

\* the collection holds a document about as long as the preview
LongInit ==
    /\ Start0
    /\ limit = MaxLongCalls
    /\ \E d \in 0..(2 * LongSlack) : coll = <<LongDoc(d), Doc2>>

Busy(t) == \E p \in Procs : pc[p] # "idle" /\ req[p].tid = t

\* Workers and thread ids are interchangeable: a request is served by the first idle
\* worker, and "t2" names a thread only once "t1" names one.
FirstIdle(p) == pc[p] = "idle" /\ (p = "p2" => pc["p1"] # "idle")

Nameable(t) == t = "t2" => (HasCheckpoint("t1") \/ Busy("t1"))

\* uuid.uuid4().hex: an identifier no thread has used
Fresh(t) == ~HasCheckpoint(t) /\ ~Busy(t)

\* ------------------------------------------------------ request handling
\* A body that does not fit AskStartRequest / AskResumeRequest is rejected
\* before the handler is called.
RejectMalformed(p) ==
    /\ FirstIdle(p)
    /\ calls < limit
    /\ \E op \in {"start", "resume"} :
          /\ req' = [req EXCEPT ![p] = Request(op, "t1", EmptyText, 1, DummyDecision, FALSE)]
          /\ resp' = [resp EXCEPT ![p] = Failure("", "ValidationError")]
    /\ work' = [work EXCEPT ![p] = NoWork]
    /\ calls' = calls + 1
    /\ UNCHANGED <<store, pc, loc, resume, limit, coll, fails, gens, okDecisions>>

\* ask_start is entered: tid = req.thread_id or uuid.uuid4().hex
StartCall(p) ==
    /\ FirstIdle(p)
    /\ calls < limit
    /\ \E t \in Threads, supplied \in BOOLEAN, in \in StartInputs :
          /\ supplied \/ Fresh(t)
          /\ Nameable(t)
          /\ req' = [req EXCEPT ![p] = Request("start", t, in[1], in[2], DummyDecision, TRUE)]
    /\ pc' = [pc EXCEPT ![p] = "input"]
    /\ resp' = [resp EXCEPT ![p] = NoResp]
    /\ work' = [work EXCEPT ![p] = NoWork]
    /\ loc' = [loc EXCEPT ![p] = EmptyState]
    /\ resume' = [resume EXCEPT ![p] = FALSE]
    /\ calls' = calls + 1
    /\ UNCHANGED <<store, limit, coll, fails, gens, okDecisions>>

\* ask_resume is entered
ResumeCall(p) ==
    /\ FirstIdle(p)
    /\ calls < limit
    /\ \E t \in Threads, d \in Decisions :
          /\ Nameable(t)
          /\ req' = [req EXCEPT ![p] = Request("resume", t, EmptyText, 1, d, TRUE)]
          /\ work' = [work EXCEPT ![p] =
                 [NoWork EXCEPT !.dup = (d \in okDecisions[t])]]
    /\ pc' = [pc EXCEPT ![p] = "load"]
    /\ resp' = [resp EXCEPT ![p] = NoResp]
    /\ loc' = [loc EXCEPT ![p] = EmptyState]
    /\ resume' = [resume EXCEPT ![p] = FALSE]
    /\ calls' = calls + 1
    /\ UNCHANGED <<store, limit, coll, fails, gens, okDecisions>>

Saved(p, step) ==
    [work[p] EXCEPT !.steps = Append(@, step), !.saves = @ + 1]

Entered(p, step) == [work[p] EXCEPT !.steps = Append(@, step)]

\* GRAPH.invoke({"question": ..., "topk": ...}, thread_id=tid): the input is written
\* over the thread's latest state and the run starts at the first node
Input(p) ==
    /\ pc[p] = "input"
    /\ LET t    == req[p].tid
           base == IF HasCheckpoint(t) THEN Latest(t).state ELSE EmptyState
           s    == Merge([question |-> req[p].question, topk |-> req[p].topk], base)
       IN  /\ loc' = [loc EXCEPT ![p] = s]
           /\ store' = Put(t, Checkpoint(s, "retrieve", <<>>))
           /\ gens' = [gens EXCEPT ![t] = 0]
           /\ okDecisions' = [okDecisions EXCEPT ![t] = {}]
    /\ work' = [work EXCEPT ![p] = [@ EXCEPT !.saves = @ + 1]]
    /\ pc' = [pc EXCEPT ![p] = "retrieve"]
    /\ UNCHANGED <<req, resume, resp, calls, limit, coll, fails>>

\* faulty variant of ResumeValueFor: the decision never reaches interrupt()
NoResumeValue(ck) == FALSE

\* interrupt() returns the resume value to the node that was pending when the run
\* was continued: the human node
ResumeValueFor(ck) == ck.next = "human"

\* faulty variant of ResumeAt: the run re-enters at the first node
ResumeAtStart(ck) == "retrieve"

\* the node a run continuing from checkpoint ck enters: the one ck records as next
ResumeAt(ck) == ck.next

\* GRAPH.invoke(Command(resume=decision), thread_id=tid): the run continues from the
\* thread's latest checkpoint; a thread without one is started with an empty state
Load(p) ==
    /\ pc[p] = "load"
    /\ LET t == req[p].tid IN
       \/ /\ ~HasCheckpoint(t)
          /\ loc' = [loc EXCEPT ![p] = EmptyState]
          /\ store' = Put(t, Checkpoint(EmptyState, "retrieve", <<>>))
          /\ work' = [work EXCEPT ![p] = [@ EXCEPT !.saves = @ + 1]]
          /\ pc' = [pc EXCEPT ![p] = "retrieve"]
          /\ UNCHANGED <<resume, resp>>
       \/ /\ HasCheckpoint(t)
          /\ Latest(t).next # "END"
          /\ loc' = [loc EXCEPT ![p] = Latest(t).state]
          /\ resume' = [resume EXCEPT ![p] = ResumeValueFor(Latest(t))]
          /\ work' = [work EXCEPT ![p] = [@ EXCEPT !.loaded = <<Latest(t)>>]]
          /\ pc' = [pc EXCEPT ![p] = ResumeAt(Latest(t))]
          /\ UNCHANGED <<store, resp>>
       \/ /\ HasCheckpoint(t)
          /\ Latest(t).next = "END"
          /\ loc' = [loc EXCEPT ![p] = Latest(t).state]
          /\ work' = [work EXCEPT ![p] = [@ EXCEPT !.loaded = <<Latest(t)>>]]
          /\ resp' = [resp EXCEPT ![p] = Respond(t, Latest(t).state, <<>>)]
          /\ pc' = [pc EXCEPT ![p] = "idle"]
          /\ UNCHANGED <<store, resume>>
    /\ UNCHANGED <<req, calls, limit, coll, fails, gens, okDecisions>>

\* the retrieve node
Retrieve(p) ==
    /\ pc[p] = "retrieve"
    /\ LET t == req[p].tid IN
       \/ /\ "question" \notin DOMAIN loc[p]
          /\ resp' = [resp EXCEPT ![p] = Failure(t, "KeyError")]
          /\ work' = [work EXCEPT ![p] = Entered(p, "retrieve")]
          /\ pc' = [pc EXCEPT ![p] = "idle"]
          /\ UNCHANGED <<store, loc, fails>>
       \/ /\ "question" \in DOMAIN loc[p]
          /\ fails < MaxFailures
          /\ fails' = fails + 1
          /\ resp' = [resp EXCEPT ![p] = Failure(t, "RetrievalUnavailable")]
          /\ work' = [work EXCEPT ![p] = Entered(p, "retrieve")]
          /\ pc' = [pc EXCEPT ![p] = "idle"]
          /\ UNCHANGED <<store, loc>>
       \/ /\ "question" \in DOMAIN loc[p]
          /\ LET s == Merge(retrieve_node(loc[p]), loc[p])
             IN  /\ loc' = [loc EXCEPT ![p] = s]
                 /\ store' = Put(t, Checkpoint(s, "context", <<>>))
          /\ work' = [work EXCEPT ![p] = Saved(p, "retrieve")]
          /\ pc' = [pc EXCEPT ![p] = "context"]
          /\ UNCHANGED <<resp, fails>>
    /\ UNCHANGED <<req, resume, calls, limit, coll, gens, okDecisions>>

\* the context node
Context(p) ==
    /\ pc[p] = "context"
    /\ LET t == req[p].tid
           s == Merge(context_node(loc[p]), loc[p])
       IN  /\ loc' = [loc EXCEPT ![p] = s]
           /\ store' = Put(t, Checkpoint(s, "human", <<>>))
    /\ work' = [work EXCEPT ![p] = Saved(p, "context")]
    /\ pc' = [pc EXCEPT ![p] = "human"]
    /\ UNCHANGED <<req, resume, resp, calls, limit, coll, fails, gens, okDecisions>>

\* the human node: interrupt(payload) parks the run unless a resume value is at hand
Human(p) ==
    /\ pc[p] = "human"
    /\ LET t == req[p].tid IN
       \/ /\ ~resume[p]
          /\ store' = Put(t, Checkpoint(loc[p], "human", <<HumanPayload(loc[p])>>))
          /\ resp' = [resp EXCEPT ![p] = Respond(t, loc[p], <<HumanPayload(loc[p])>>)]
          /\ work' = [work EXCEPT ![p] = Saved(p, "human")]
          /\ pc' = [pc EXCEPT ![p] = "idle"]
          /\ UNCHANGED <<loc, resume>>
       \/ /\ resume[p]
          /\ LET s == Merge(HumanUpdate(req[p].decision), loc[p])
             IN  /\ loc' = [loc EXCEPT ![p] = s]
                 /\ store' = Put(t, Checkpoint(s, "generate", <<>>))
          /\ resume' = [resume EXCEPT ![p] = FALSE]
          /\ work' = [work EXCEPT ![p] = Saved(p, "human")]
          /\ pc' = [pc EXCEPT ![p] = "generate"]
          /\ UNCHANGED resp
    /\ UNCHANGED <<req, calls, limit, coll, fails, gens, okDecisions>>

\* the generate node, then the handler's return
Generate(p) ==
    /\ pc[p] = "generate"
    /\ LET t == req[p].tid IN
       \/ /\ fails < MaxFailures
          /\ fails' = fails + 1
          /\ resp' = [resp EXCEPT ![p] = Failure(t, "GenerationUnavailable")]
          /\ work' = [work EXCEPT ![p] =
                 [Entered(p, "generate") EXCEPT !.prompt = <<Prompt(loc[p])>>]]
          /\ UNCHANGED <<store, loc, gens, okDecisions>>
       \/ /\ LET s == Merge(generate_node(loc[p]), loc[p])
             IN  /\ loc' = [loc EXCEPT ![p] = s]
                 /\ store' = Put(t, Checkpoint(s, "END", <<>>))
                 /\ resp' = [resp EXCEPT ![p] = Respond(t, s, <<>>)]
          /\ work' = [work EXCEPT ![p] =
                 [Saved(p, "generate") EXCEPT !.prompt = <<Prompt(loc[p])>>]]
          /\ gens' = [gens EXCEPT ![t] = @ + 1]
          /\ okDecisions' = [okDecisions EXCEPT ![t] = @ \cup {req[p].decision}]
          /\ UNCHANGED fails
    /\ pc' = [pc EXCEPT ![p] = "idle"]
    /\ UNCHANGED <<req, resume, calls, limit, coll>>

\* the steps of the request worker p serves
Serve(p) ==
    \/ RejectMalformed(p)
    \/ StartCall(p)
    \/ ResumeCall(p)
    \/ Input(p)
    \/ Load(p)
    \/ Retrieve(p)
    \/ Context(p)
    \/ Human(p)
    \/ Generate(p)

\* requests served one at a time
Next == Serve("p1")

Spec == Init /\ [][Next]_vars

\* the steps of a request once its handler is entered
Run(p) ==
    \/ Input(p)
    \/ Load(p)
    \/ Retrieve(p)
    \/ Context(p)
    \/ Human(p)
    \/ Generate(p)

\* a handler that was entered runs on until it returns or raises
LiveSpec == Spec /\ WF_vars(Run("p1"))

\* requests served one at a time over a collection holding a long document
LongSpec == LongInit /\ [][Next]_vars

\* requests served by two workers at once
ConcNext == \E p \in Procs : Serve(p)

ConcSpec == ConcInit /\ [][ConcNext]_vars

TypeOK ==
    /\ \A p \in Procs : pc[p] \in {"idle", "input", "load", "retrieve", "context", "human", "generate"}
    /\ calls \in 0..limit
    /\ fails \in 0..MaxFailures


\* ------------------------------------------------------------------ claims
Returned(p) == pc[p] = "idle" /\ resp[p].status = "ok"

ValidStart(p) == req[p].op = "start" /\ req[p].valid

ValidResume(p) == req[p].op = "resume" /\ req[p].valid

\* the run of p's resume continued from a checkpoint parked at the human node
ResumedSuspended(p) ==
    /\ ValidResume(p)
    /\ work[p].loaded # <<>>
    /\ work[p].loaded[1].next = "human"
    /\ work[p].loaded[1].interrupt # <<>>

\* p's resume found no checkpoint for its thread_id
ResumedUnknown(p) == ValidResume(p) /\ pc[p] # "load" /\ work[p].loaded = <<>>

\* p's resume found the thread completed
ResumedTerminal(p) ==
    ValidResume(p) /\ work[p].loaded # <<>> /\ work[p].loaded[1].next = "END"

\* C1: a Start call with valid {question, topk} that returns carries either an
\* interrupt payload or an answer, never both and never neither.
C1_StartOutcome ==
    \A p \in Procs :
        (ValidStart(p) /\ Returned(p)) =>
            /\ (resp[p].interrupt # <<>>) # (resp[p].answer # <<>>)
            /\ Len(resp[p].interrupt) <= 1
            /\ Len(resp[p].answer) <= 1

\* a Start on a thread whose earlier run left an answer in the state has returned
C1_Witness ==
    \E p \in Procs :
        /\ ValidStart(p) /\ Returned(p)
        /\ resp[p].interrupt # <<>>
        /\ "answer" \in DOMAIN Latest(req[p].tid).state

\* C2 (as claimed): a resume for a thread_id without a checkpoint fails with UnknownThread,
\* enters no node and writes no checkpoint.
C2_UnknownThreadRejected ==
    \A p \in Procs :
        ResumedUnknown(p) =>
            /\ work[p].steps = <<>>
            /\ work[p].saves = 0
            /\ resp[p].status # "none" => resp[p].error = "UnknownThread"

\* C3 (as claimed): a resume on a completed thread fails with NotSuspended, runs no
\* node and leaves the terminal checkpoint as it is.
C3_NotSuspendedRejected ==
    \A p \in Procs :
        (ResumedTerminal(p) /\ pc[p] = "idle") =>
            /\ resp[p].status = "error" /\ resp[p].error = "NotSuspended"
            /\ work[p].steps = <<>>
            /\ work[p].saves = 0
            /\ Latest(req[p].tid) = work[p].loaded[1]

\* C4 (as claimed): a resume repeating the decision of a resume that already succeeded
\* on the thread fails with Conflict or NotSuspended, and generation completes at most
\* once per started run.
C4_SecondResumeFails ==
    /\ \A p \in Procs :
          (ValidResume(p) /\ work[p].dup /\ pc[p] = "idle" /\ resp[p].status # "none") =>
              resp[p].status = "error" /\ resp[p].error \in {"Conflict", "NotSuspended"}
    /\ \A t \in Threads : gens[t] <= 1

\* C5 (as claimed): of two resumes with different decisions that continued from the same
\* parked checkpoint, exactly one returns an answer, that answer is the thread's stored
\* one, and the other observes Conflict.
C5_OneResumeWins ==
    \A p, o \in Procs :
        ( /\ p # o
          /\ ResumedSuspended(p) /\ ResumedSuspended(o)
          /\ req[p].tid = req[o].tid
          /\ work[p].loaded = work[o].loaded
          /\ req[p].decision # req[o].decision
          /\ pc[p] = "idle" /\ pc[o] = "idle"
          /\ resp[p].status = "ok" ) =>
            /\ resp[o].status = "error" /\ resp[o].error = "Conflict"
            /\ work[o].saves = 0
            /\ <<Latest(req[p].tid).state.answer>> = resp[p].answer

\* the prompt generation read in p's resume, and the answer returned, are those of
\* (question, ctx)
GeneratedFrom(p, ctx) ==
    LET q == work[p].loaded[1].state.question
    IN  /\ work[p].prompt # <<>> =>
              work[p].prompt[1] = [question |-> q, context |-> ctx]
        /\ Returned(p) =>
              resp[p].answer = <<Complete([question |-> q, context |-> ctx])>>

EditedResume(p) ==
    /\ ResumedSuspended(p)
    /\ "edited_context" \in DOMAIN req[p].decision
    /\ req[p].decision.approved = FALSE

\* C6 (as claimed): a resume of a suspended thread with {approved: false,
\* edited_context: X} generates from a context equal to X, for every X.
C6_OverrideAnyX ==
    \A p \in Procs :
        EditedResume(p) => GeneratedFrom(p, req[p].decision.edited_context)

\* C6 (amended): a resume of a suspended thread with {approved: false, edited_context: X},
\* X not the empty text, generates from a context equal to X whatever was retrieved.
C6_OverrideNonEmptyX ==
    \A p \in Procs :
        (EditedResume(p) /\ req[p].decision.edited_context # EmptyText) =>
            GeneratedFrom(p, req[p].decision.edited_context)

\* a resume with edited_context X has returned an answer
C6_Witness ==
    \E p \in Procs :
        /\ EditedResume(p) /\ Returned(p)
        /\ req[p].decision.edited_context = TextX
        /\ work[p].loaded[1].state.context # TextX

\* the text context_node builds from the documents <<Doc1, Doc2>>
TaggedDoc1Doc2 ==
    <<"[", "doc1", "#", "0", "]", "\n", "a", "\n", "\n", "[", "doc2", "#", "1", "]", "\n", "b">>

ApprovedResume(p) == ResumedSuspended(p) /\ req[p].decision = [approved |-> TRUE]

\* C7: a resume of a suspended thread with {approved: true} leaves context as it was
\* stored at suspension, the citation-tagged concatenation of the retrieved items, and
\* generation reads exactly that text.
C7_ApprovedKeepsContext ==
    \A p \in Procs :
        ApprovedResume(p) =>
            LET s == work[p].loaded[1].state
            IN  /\ GeneratedFrom(p, s.context)
                /\ pc[p] = "generate" => loc[p].context = s.context
                /\ s.context = Join([i \in 1..Len(s.retrieved) |-> FormatPart(s.retrieved[i])])
                /\ s.retrieved = <<Doc1, Doc2>> => s.context = TaggedDoc1Doc2

\* an approved resume over two retrieved documents has returned an answer
C7_Witness ==
    \E p \in Procs :
        /\ ApprovedResume(p) /\ Returned(p)
        /\ work[p].loaded[1].state.retrieved = <<Doc1, Doc2>>

\* C8 (as claimed): a Start or Resume that fails in retrieval or generation has written
\* no checkpoint, so the thread's stored checkpoint is the one before the call.
C8_FailureWritesNothing ==
    \A p \in Procs :
        (pc[p] = "idle"
         /\ resp[p].error \in {"RetrievalUnavailable", "GenerationUnavailable"}) =>
            /\ work[p].saves = 0
            /\ work[p].loaded # <<>> => Latest(req[p].tid) = work[p].loaded[1]

\* C10 (as claimed): a Start with an empty question is rejected with ValidationError:
\* retrieval is not entered and no checkpoint is written.
C10_EmptyQuestionRejected ==
    \A p \in Procs :
        (req[p].op = "start" /\ req[p].question = EmptyText /\ pc[p] = "idle"
         /\ resp[p].status # "none") =>
            /\ resp[p].status = "error" /\ resp[p].error = "ValidationError"
            /\ work[p].steps = <<>>
            /\ work[p].saves = 0


\* every checkpoint ever written for a thread
Checkpoints(t) == {store[t][i] : i \in 1..Len(store[t])}

\* C11: in every reachable state each persisted checkpoint with a suspend payload is
\* parked at the human step, and each terminal checkpoint has no suspend payload and
\* an answer in its state.
C11_CheckpointShape ==
    \A t \in Threads : \A ck \in Checkpoints(t) :
        /\ ck.interrupt # <<>> => ck.next = "human"
        /\ ck.next = "END" => (ck.interrupt = <<>> /\ "answer" \in DOMAIN ck.state)

\* a thread has been parked and then completed
C11_Witness ==
    \E t \in Threads :
        /\ \E ck \in Checkpoints(t) : ck.interrupt # <<>>
        /\ HasCheckpoint(t) /\ Latest(t).next = "END"


\* the position of a checkpoint along NEW, RETRIEVING, BUILDING_CONTEXT, AWAITING_REVIEW,
\* GENERATING, DONE: the step it names as next
Rank(ck) ==
    IF ck.next = "retrieve" THEN 1
    ELSE IF ck.next = "context" THEN 2
    ELSE IF ck.next = "human" THEN 3
    ELSE IF ck.next = "generate" THEN 4
    ELSE 5

\* C12 (as claimed): each thread's checkpoints advance one step at a time and never go
\* back, generation is reached only after the thread was parked at the human step, and
\* between calls a thread rests only parked at the human step or completed.
C12_LinearLifecycle ==
    \A t \in Threads :
        /\ \A i \in 1..Len(store[t]) :
              /\ i > 1 => Rank(store[t][i]) \in {Rank(store[t][i - 1]), Rank(store[t][i - 1]) + 1}
              /\ i = 1 => Rank(store[t][i]) = 1
              /\ Rank(store[t][i]) >= 4 =>
                    \E j \in 1..(i - 1) : store[t][j].interrupt # <<>>
        /\ (HasCheckpoint(t) /\ ~Busy(t)) =>
              \/ Latest(t).next = "END"
              \/ Latest(t).next = "human" /\ Latest(t).interrupt # <<>>


\* t is a prefix of u
IsPrefix(t, u) == Len(t) <= Len(u) /\ SubSeq(u, 1, Len(t)) = t

\* C13: a resume of a suspended thread re-enters at the human step: retrieve and context
\* are not run again, and the question, topk and retrieved that generation sees are
\* those persisted at suspension.
C13_ResumeAtHuman ==
    \A p \in Procs :
        ResumedSuspended(p) =>
            LET s == work[p].loaded[1].state
            IN  /\ IsPrefix(work[p].steps, <<"human", "generate">>)
                /\ pc[p] \in {"idle", "human", "generate"}
                /\ pc[p] # "idle" =>
                      /\ loc[p].question = s.question
                      /\ loc[p].topk = s.topk
                      /\ loc[p].retrieved = s.retrieved
                /\ work[p].prompt # <<>> => work[p].prompt[1].question = s.question
                /\ pc[p] = "idle" => work[p].steps = <<"human", "generate">>

\* a resume of a suspended thread has run generation
C13_Witness ==
    \E p \in Procs :
        /\ ResumedSuspended(p) /\ Returned(p)
        /\ work[p].steps = <<"human", "generate">>


\* C14: a resume of a suspended thread eventually returns, with a completed answer unless
\* generation fails, and it never returns another interrupt: after it returns the
\* thread is terminal.
C14_ResumeCompletes ==
    /\ [](\A p \in Procs :
            (ResumedSuspended(p) /\ Returned(p)) =>
                /\ resp[p].interrupt = <<>>
                /\ resp[p].answer # <<>>
                /\ Latest(req[p].tid).next = "END"
                /\ "answer" \in DOMAIN Latest(req[p].tid).state)
    /\ \A p \in Procs :
          (ResumedSuspended(p) /\ pc[p] # "idle") ~>
              (pc[p] = "idle"
               /\ (Returned(p) \/ resp[p].error = "GenerationUnavailable"))

\* one Start followed by one resume has finished the thread
C14_Witness ==
    \E p \in Procs :
        /\ ResumedSuspended(p) /\ Returned(p)
        /\ calls = 2
        /\ Latest(req[p].tid).next = "END"


\* the worker that took the step
Stepped(p) == pc'[p] # pc[p] \/ req'[p] # req[p] \/ work'[p] # work[p] \/ resp'[p] # resp[p]

\* a suspended or completed checkpoint is what its own thread's requests alone determine
OwnOutcome(ck) ==
    /\ ck.interrupt # <<>> =>
          /\ ck.state.retrieved = similarity_search(ck.state.question, ck.state.topk)
          /\ ck.state.context = context_node(ck.state).context
          /\ ck.interrupt[1].question = ck.state.question
    /\ ck.next = "END" =>
          ck.state.answer =
              Complete([question |-> ck.state.question, context |-> ck.state.context])

\* C15: a step of a Start or Resume on one thread_id changes neither the checkpoints nor
\* the running state of any other thread_id, and what a thread persists is determined
\* by the requests on that thread alone, however the two threads' steps interleave.
C15_ThreadsIndependent ==
    [][ \A p \in Procs :
            Stepped(p) =>
                /\ \A o \in Procs \ {p} :
                      /\ pc'[o] = pc[o] /\ loc'[o] = loc[o] /\ resume'[o] = resume[o]
                      /\ resp'[o] = resp[o] /\ work'[o] = work[o] /\ req'[o] = req[o]
                /\ \A u \in Threads \ {req'[p].tid} :
                      /\ store'[u] = store[u]
                      /\ gens'[u] = gens[u]
                      /\ okDecisions'[u] = okDecisions[u]
                /\ LET t == req'[p].tid
                   IN  \/ store'[t] = store[t]
                       \/ /\ Len(store'[t]) = Len(store[t]) + 1
                          /\ SubSeq(store'[t], 1, Len(store[t])) = store[t]
                          /\ store'[t][Len(store'[t])].state = loc'[p]
                          /\ OwnOutcome(store'[t][Len(store'[t])]) ]_vars

\* two workers are serving requests on two different threads and both have written
C15_Witness ==
    \E p, o \in Procs :
        /\ req[p].tid # req[o].tid
        /\ pc[p] # "idle" /\ pc[o] # "idle"
        /\ work[p].saves > 0 /\ work[o].saves > 0


\* C16: the interrupt returned on suspension is the payload the human step built from the
\* state and persisted: one (source, chunk) reference per retrieved item in retrieval
\* order, the state's question, and the first min(len(context), 4000) tokens of context.
C16_PayloadFromState ==
    \A p \in Procs :
        (Returned(p) /\ resp[p].interrupt # <<>>) =>
            LET pl == resp[p].interrupt[1]
                s  == Latest(req[p].tid).state
                n  == IF Len(s.context) <= PreviewLen THEN Len(s.context) ELSE PreviewLen
            IN  /\ Latest(req[p].tid).interrupt = <<pl>>
                /\ pl.action = "review_context"
                /\ pl.question = s.question
                /\ Len(pl.retrieved_sources) = Len(s.retrieved)
                /\ \A i \in 1..Len(s.retrieved) :
                      pl.retrieved_sources[i] =
                          [source |-> s.retrieved[i].metadata.source,
                           chunk |-> s.retrieved[i].metadata.chunk]
                /\ Len(pl.context_preview) = n
                /\ pl.context_preview = SubSeq(s.context, 1, n)

\* a Start over two retrieved items whose context is longer than the preview has returned
C16_Witness ==
    \E p \in Procs :
        /\ ValidStart(p) /\ Returned(p) /\ resp[p].interrupt # <<>>
        /\ Len(Latest(req[p].tid).state.retrieved) = 2
        /\ Len(Latest(req[p].tid).state.context) > PreviewLen
        /\ Len(resp[p].interrupt[1].context_preview) = PreviewLen


\* the human node of p's resume of a suspended thread has just returned its update
PastHuman(p) == ResumedSuspended(p) /\ pc[p] = "generate"

\* C17: the update the human step returns for a decision has at most the key context;
\* merged into the suspended state it leaves question, topk, retrieved and answer as
\* they were (present or absent), and running the step again on the merged state with
\* the same decision changes nothing more.
C17_HumanTouchesContextOnly ==
    /\ \A d \in Decisions : DOMAIN HumanUpdate(d) \subseteq {"context"}
    /\ \A p \in Procs :
          PastHuman(p) =>
              LET s0 == work[p].loaded[1].state
                  d  == req[p].decision
              IN  /\ \A k \in {"question", "topk", "retrieved", "answer"} :
                        /\ k \in DOMAIN loc[p] <=> k \in DOMAIN s0
                        /\ k \in DOMAIN s0 => loc[p][k] = s0[k]
                  /\ DOMAIN loc[p] \subseteq DOMAIN s0 \cup {"context"}
                  /\ Merge(HumanUpdate(d), loc[p]) = loc[p]
                  /\ Latest(req[p].tid).state = loc[p]

\* the human step has replaced the context of a thread that carried an earlier answer
C17_Witness ==
    \E p \in Procs :
        /\ PastHuman(p)
        /\ "answer" \in DOMAIN work[p].loaded[1].state
        /\ loc[p].context = TextX
        /\ work[p].loaded[1].state.context # TextX


\* the decision with its approved flag, if any, removed
WithoutApproved(d) == [k \in DOMAIN d \ {"approved"} |-> d[k]]

\* the checkpoint at which thread t was last parked
LastParked(t) ==
    LET I == {i \in 1..Len(store[t]) : store[t][i].next = "human"}
    IN  store[t][CHOOSE i \in I : \A j \in I : j <= i]

\* thread t was parked, resumed once and completed, and no call has failed
CompletedOnce(t) ==
    /\ fails = 0
    /\ gens[t] = 1
    /\ HasCheckpoint(t) /\ Latest(t).next = "END"

\* C18: what a resume of a suspended thread does is a function of the suspended state and
\* of the decision without its approved flag: it generates from edited_context if that
\* is non-empty and from the stored context otherwise, it never suspends again or is
\* refused, and two threads completed from equal suspended states by decisions that
\* differ only in approved (its value or its presence) end in equal states.
C18_ApprovedIgnored ==
    /\ \A p \in Procs :
          ResumedSuspended(p) =>
              LET s0  == work[p].loaded[1].state
                  e   == WithoutApproved(req[p].decision)
                  ctx == IF "edited_context" \in DOMAIN e /\ e.edited_context # EmptyText
                         THEN e.edited_context
                         ELSE s0.context
              IN  /\ GeneratedFrom(p, ctx)
                  /\ resp[p].interrupt = <<>>
                  /\ pc[p] = "idle" =>
                        (Returned(p) \/ resp[p].error = "GenerationUnavailable")
                  /\ Returned(p) =>
                        Latest(req[p].tid).state =
                            [context |-> ctx,
                             answer |-> Complete([question |-> s0.question, context |-> ctx])]
                            @@ s0
    /\ \A t, u \in Threads :
          (/\ CompletedOnce(t) /\ CompletedOnce(u)
           /\ LastParked(t) = LastParked(u)
           /\ \E d \in okDecisions[t], f \in okDecisions[u] :
                 WithoutApproved(d) = WithoutApproved(f))
          => Latest(t).state = Latest(u).state

\* two threads parked alike were completed, one by {approved: false}, one by a decision
\* without the flag
C18_Witness ==
    /\ CompletedOnce("t1") /\ CompletedOnce("t2")
    /\ LastParked("t1") = LastParked("t2")
    /\ okDecisions["t1"] = {[approved |-> FALSE]}
    /\ okDecisions["t2"] = {EmptyDict}
    /\ \E p \in Procs :
          /\ ResumedSuspended(p) /\ Returned(p)
          /\ resp[p].answer = <<Complete(Prompt(LastParked("t1").state))>>


EmptyEditResume(p) ==
    /\ ResumedSuspended(p)
    /\ req[p].decision = [approved |-> FALSE, edited_context |-> EmptyText]

\* C19: the human step returns a context only for a dict decision whose edited_context
\* is not the empty text; for a resume value that is not a dict it returns no update; a
\* resume whose edited_context is empty leaves the context as context_node built it and
\* generates from it; and the human step changes a context only to a non-empty
\* edited_context.
C19_EmptyEditKeepsContext ==
    /\ \A v \in NonMappings : HumanUpdate(v) = EmptyDict
    /\ \A d \in Decisions :
          "context" \in DOMAIN HumanUpdate(d) <=>
              ("edited_context" \in DOMAIN d /\ d.edited_context # EmptyText)
    /\ \A p \in Procs :
          /\ EmptyEditResume(p) =>
                LET s0 == work[p].loaded[1].state
                IN  /\ GeneratedFrom(p, s0.context)
                    /\ PastHuman(p) => loc[p] = s0
                    /\ s0.context =
                          Join([i \in 1..Len(s0.retrieved) |-> FormatPart(s0.retrieved[i])])
          /\ (PastHuman(p) /\ loc[p].context # work[p].loaded[1].state.context) =>
                /\ "edited_context" \in DOMAIN req[p].decision
                /\ req[p].decision.edited_context # EmptyText
                /\ loc[p].context = req[p].decision.edited_context

\* a resume with an empty edited_context has returned an answer over a built context
C19_Witness ==
    \E p \in Procs :
        /\ EmptyEditResume(p) /\ Returned(p)
        /\ work[p].loaded[1].state.context # EmptyText
        /\ resp[p].answer = <<Complete(Prompt(work[p].loaded[1].state))>>


\* the checkpoint thread t held before the call p serves wrote its own
Before(p) == store[req[p].tid][Len(store[req[p].tid]) - work[p].saves]

\* p serves a Start on a thread_id that held a suspended or a completed checkpoint
Restart(p) ==
    /\ ValidStart(p)
    /\ pc[p] # "input"
    /\ work[p].saves >= 1
    /\ Len(store[req[p].tid]) > work[p].saves
    /\ Before(p).next \in {"human", "END"}

\* C20: a Start on a thread_id that already holds a suspended or completed checkpoint
\* runs retrieve, context, human from a checkpoint carrying the new question and topk
\* and never enters generate; when it returns, it returns an interrupt and no answer,
\* it has written a checkpoint for the input and for each of the three steps after the
\* earlier ones, and the thread's latest checkpoint is parked at the human step with the
\* question, topk, retrieved items and context of the new request.
C20_RestartSuspends ==
    \A p \in Procs :
        Restart(p) =>
            LET t     == req[p].tid
                first == store[t][Len(store[t]) - work[p].saves + 1]
                in    == [question |-> req[p].question, topk |-> req[p].topk]
                docs  == similarity_search(req[p].question, req[p].topk)
            IN  /\ IsPrefix(work[p].steps, <<"retrieve", "context", "human">>)
                /\ first = Checkpoint(Merge(in, Before(p).state), "retrieve", <<>>)
                /\ pc[p] = "idle" =>
                      (Returned(p) \/ resp[p].error = "RetrievalUnavailable")
                /\ Returned(p) =>
                      /\ resp[p].interrupt # <<>>
                      /\ resp[p].answer = <<>>
                      /\ resp[p].interrupt[1].question = req[p].question
                      /\ work[p].saves = Len(<<"input", "retrieve", "context", "human">>)
                      /\ Latest(t).next = "human"
                      /\ Latest(t).interrupt = resp[p].interrupt
                      /\ Latest(t).state.question = req[p].question
                      /\ Latest(t).state.topk = req[p].topk
                      /\ Latest(t).state.retrieved = docs
                      /\ Latest(t).state.context = context_node([retrieved |-> docs]).context

\* a Start with another question has suspended a thread that had completed, the earlier
\* answer still in its state
C20_Witness ==
    \E p \in Procs :
        /\ Restart(p) /\ Returned(p)
        /\ Before(p).next = "END"
        /\ Before(p).state.question # req[p].question
        /\ "answer" \in DOMAIN Latest(req[p].tid).state
        /\ resp[p].answer = <<>>

====
